---- MODULE Spec2Model ----
(***************************************************************************)
(* A model of puppeteer-gpt: the batch processors that drive a CSV queue   *)
(* of prompts through the ChatGPT page (CsvProcessor with its retry loop,  *)
(* src/src/services/csvProcessor.ts, and CsvService, the single-attempt    *)
(* processor index.ts runs, src/unnamed/part_008) and the response         *)
(* detector waitForAssistantResponse (src/src/utils/ui/index.ts).          *)
(*                                                                         *)
(* Text is modelled as a sequence of tokens: "includes" is a search for a  *)
(* token, the empty string is the empty sequence.  The disk is taken to    *)
(* accept every write; screenshots (page.screenshot) may fail.             *)
(***************************************************************************)
EXTENDS Integers, Sequences, FiniteSets, TLC

(***************************************************************************)
(* Bounds of the model.                                                    *)
(***************************************************************************)
NumRows == 2

(***************************************************************************)
(* Program constants.                                                      *)
(***************************************************************************)
maxRetries == 3

\* appConfig.timing.initialRetryDelay and maxRetryDelay, in milliseconds
initialRetryDelay == 5000

maxRetryDelay == 30000

\* the retry counts for which the delay of handleRetry is examined
MaxRetryCount == 5

errorIdentifier == "ERROR"

RowIds == 1..NumRows

(***************************************************************************)
(* Texts.                                                                  *)
(***************************************************************************)
includes(text, tok) == \E k \in DOMAIN text : text[k] = tok

GoodGrade == <<"<GRADE_DATA>", "<Student ID>", "<Total Score>", "</GRADE_DATA>">>

PlainText == <<"text">>

\* a response in the grading format whose text has the word ERROR in it
GradeQuotingError == GoodGrade \o <<"ERROR">>

NavErrorDuring == <<"ERROR", ": Navigation to new chat detected during response">>

FormatErr == "Response format validation failed - missing expected grading structure"

ShotErr == "screenshot failed"

ErrMsgs == {"SurfaceTimeout", "Send button is disabled"}

\* CsvProcessor.gradeDataPattern: an opening tag followed by a closing tag
hasGradeData(response) ==
  \E a, b \in DOMAIN response :
    a < b /\ response[a] = "<GRADE_DATA>" /\ response[b] = "</GRADE_DATA>"

validateGradeContent(response) ==
  LET hasStudentInfo == includes(response, "<Student ID>")
      hasName == includes(response, "<Name>")
      hasScore == includes(response, "<Score>") \/ includes(response, "<Total Score>")
      hasTotalScore == includes(response, "<Total Score>")
  IN (hasStudentInfo \/ hasName) /\ (hasScore \/ hasTotalScore)

\* a validation that lets every response pass
validateResponseFormatAny(response) == TRUE

validateResponseFormat(response) ==
  IF response = <<>> THEN FALSE
  ELSE IF ~hasGradeData(response) THEN FALSE
  ELSE validateGradeContent(response)

\* CsvProcessor.handleRowError: the result recorded once the retries are exhausted
ErrorResultCsvProcessor(msg) ==
  <<errorIdentifier, "(after retries):", msg>>

\* CsvService.processPrompt: the result recorded in its catch block
ErrorResultCsvService(msg) ==
  <<errorIdentifier, msg>>

(***************************************************************************)
(* What one call of sendMessageWithAttachments can come to, as the batch   *)
(* processor sees it: a returned text (tagged with the way the detector    *)
(* ended), a thrown error, or a rejection nothing handles (the detector's  *)
(* timer callbacks await a screenshot outside any try).                    *)
(***************************************************************************)
\* a detector whose text for a lost session does not carry the error identifier
SessionLostPayloadPlain(partial) ==
  IF partial # <<>> THEN partial
  ELSE <<": Navigation to new chat detected during response">>

SessionLostPayload(partial) ==
  IF partial # <<>> THEN partial ELSE NavErrorDuring

Ret(kind, partial, payload) ==
  [type |-> "return", kind |-> kind, partial |-> partial, payload |-> payload, msg |-> ""]

Thr(msg) ==
  [type |-> "throw", kind |-> "THROW", partial |-> <<>>, payload |-> <<>>, msg |-> msg]

Unhandled ==
  [type |-> "unhandled", kind |-> "UNHANDLED", partial |-> <<>>, payload |-> <<>>, msg |-> ""]

SendOutcomes ==
  {Ret("COMPLETE", p, p) : p \in {GoodGrade, PlainText, GradeQuotingError}}
    \cup {Ret("TIMEOUT", p, p) : p \in {GoodGrade, PlainText}}
    \cup {Ret("SESSION_LOST", p, SessionLostPayload(p)) : p \in {<<>>, PlainText, GoodGrade}}
    \cup {Ret("FORCED", <<>>, <<>>)}
    \cup {Thr(m) : m \in ErrMsgs}
    \cup {Unhandled}

NoOutcome == [row |-> 0, type |-> "none", kind |-> "none", partial |-> <<>>,
              payload |-> <<>>, err |-> "", retryCount |-> 0, attempt |-> 0,
              delay |-> 0, entry |-> "none", prompted |-> FALSE]

(***************************************************************************)
(* waitForAssistantResponse: its constants, in seconds, and its data.      *)
(* A response text is modelled by its length, in units below the 100       *)
(* characters that let the check take a progress screenshot.  A page that  *)
(* is not alive rejects every evaluation (page.evaluate, page.$$eval,      *)
(* page.waitForFunction), one without shots rejects every screenshot;      *)
(* page.url() always answers.                                              *)
(***************************************************************************)
Timeout == 93

MaxLen == 2

MaxChanges == 1

buttonTimeout == 60

checkInterval == 5

defaultMaxStableTime == 15

continueMaxStableTime == 5

progressAfter == 30

progressQuiet == 15

stuckAfter == 60

MaxTime == buttonTimeout + Timeout + 2

ProjectUrl == <<"chatgpt.com", "/g/", "project">>

ChatUrl == <<"chatgpt.com", "/c/", "abc">>

NewChatUrl == <<"chatgpt.com", "/new">>

Urls == {ProjectUrl, ChatUrl, NewChatUrl}

NavErrBefore == "ERROR: Navigation to new chat detected before receiving response"

NavErrDuring == "ERROR: Navigation to new chat detected during response"

TimeoutErr == "Waiting for assistant response timed out"

ButtonErr == "Waiting failed: timeout exceeded"

\* the page when the message has just been sent; an earlier answer may be on
\* it.  own: the latest assistant message answers the message just sent, and
\* is not one that an earlier row or attempt left in the conversation.
LoadedPage ==
  [url |-> ProjectUrl, len |-> 0, btnDisabled |-> FALSE, regen |-> FALSE,
   cont |-> FALSE, alive |-> TRUE, shots |-> TRUE, matches |-> TRUE,
   changes |-> 0, own |-> FALSE]

\* the locals of waitForAssistantResponse before it is called.  Two fields
\* are not locals but a record of what the callbacks have seen: seenLength,
\* the length the last reading of the text found, and sameSince, the time of
\* the first reading that found this length.  scheduled: the timers and the
\* listener that the function has set up and that are still in place.
NotWaiting ==
  [dpc |-> "idle", initialUrl |-> ProjectUrl, currentUrl |-> ProjectUrl,
   now |-> 0, responseStartTime |-> 0, lastProgressUpdate |-> 0,
   lastLength |-> 0, stableCount |-> 0, checkCount |-> 0,
   maxStableTime |-> defaultMaxStableTime, timerLost |-> FALSE,
   kind |-> "none", len |-> 0, err |-> "",
   seenLength |-> 0, sameSince |-> 0,
   hasNavigated |-> FALSE, scheduled |-> {}]

(***************************************************************************)
(* sendMessageWithAttachments: its data.                                   *)
(***************************************************************************)
\* a sample of the page taken while an upload is waited for: the spinner that
\* waitForFileIndicators looks at, any other loading indicator, and any
\* file indicator
NoSample == [spinner |-> FALSE, otherLoading |-> FALSE, fileIndicators |-> FALSE]

\* sendMessageWithAttachments before it is called.  Of the page it holds:
\* text (the composer holds the prompt), attached (the files the page has
\* taken), submissions (how often the page has submitted the prompt) and
\* submittedWith (the files that went with the first submission).
NotSending ==
  [spc |-> "idle", nFiles |-> 0, useMultiUpload |-> FALSE, next |-> 1,
   attached |-> {}, confirmed |-> {}, sample |-> NoSample,
   uploadConfirmed |-> FALSE, text |-> FALSE, approach |-> 1,
   submissions |-> 0, submittedWith |-> {}, success |-> FALSE,
   detectorStarted |-> FALSE, err |-> ""]

(***************************************************************************)
(* main of index.ts.  cause: what ended the setup, "" while nothing has.   *)
(***************************************************************************)
\* main as it stands before it has done anything
AtStart == [pc |-> "validate", exited |-> FALSE, exitCode |-> 0, cause |-> ""]

\* main inside its call of processRows
InProcessRows == [pc |-> "processRows", exited |-> FALSE, exitCode |-> 0, cause |-> ""]

(***************************************************************************)
(* State.                                                                  *)
(***************************************************************************)
VARIABLES
  impl,             \* which processor runs: "CsvProcessor" or "CsvService"
  retryFailedRows,  \* constructor argument
  processInReverse, \* constructor argument
  rows,             \* the rows in memory
  disk,             \* the rows of the CSV file
  pc,               \* position of the run
  idx,              \* index of the row in processRow
  retryCount,       \* CsvProcessor.processRowWithRetry's counter
  run,              \* 1: the first run, 2: a run over what the first left
  sent,             \* rows handed to sendMessageWithAttachments in this run
  nAttempts,        \* calls of sendMessageWithAttachments for the row in hand
  visited,          \* rows whose processRow has ended in this run
  startRows,        \* the rows as read at the start of this run
  lastOutcome,      \* the last call of sendMessageWithAttachments: what it came
                    \* to, the error caught for it (err, "" if none), its number
  recorded,         \* rows this run has given an error result
  page,             \* the ChatGPT page as waitForAssistantResponse can see it
  wait,             \* one call of waitForAssistantResponse: its locals, its clock
  main,             \* main of index.ts: its position, and how the process ended
  send              \* one call of sendMessageWithAttachments: its position and its page

vars == <<impl, retryFailedRows, processInReverse, rows, disk, pc, idx,
          retryCount, run, sent, nAttempts, visited, startRows, lastOutcome,
          recorded, page, wait, main, send>>

batchVars == <<impl, retryFailedRows, processInReverse, rows, disk, pc, idx,
               retryCount, run, sent, nAttempts, visited, startRows, lastOutcome,
               recorded, main, send>>

\* the rows a file may hold at the start: pending, done, failed, and without prompt
InitResponses == {<<>>, GoodGrade, ErrorResultCsvService("SurfaceTimeout")}

RowSet == [prompt : {"P"}, response : InitResponses]
            \cup {[prompt |-> "", response |-> <<>>]}

\* a loop that starts at the first row whatever the order
firstIndexForward == CHOOSE i \in RowIds : \A j \in RowIds : i <= j

\* processRows: where its loop starts
firstIndex == IF processInReverse THEN NumRows ELSE 1

isLastIndex(i) == IF processInReverse THEN i = 1 ELSE i = NumRows

nextIndex(i) == IF processInReverse THEN i - 1 ELSE i + 1

Init ==
  /\ impl \in {"CsvProcessor", "CsvService"}
  /\ retryFailedRows \in BOOLEAN
  /\ processInReverse \in BOOLEAN
  /\ disk \in [RowIds -> RowSet]
  /\ rows = disk
  /\ pc = "start"
  /\ idx = 0
  /\ retryCount = 0
  /\ run = 1
  /\ sent = {}
  /\ nAttempts = 0
  /\ visited = {}
  /\ startRows = disk
  /\ lastOutcome = NoOutcome
  /\ recorded = {}
  /\ page = LoadedPage
  /\ wait = NotWaiting
  /\ main = InProcessRows
  /\ send = NotSending

(***************************************************************************)
(* Helpers of the processors.                                              *)
(***************************************************************************)
\* a save that leaves the file as it is
saveResultsDropped(allRows) == disk

\* a save that writes the response of the row in hand and of no other row
saveResultsOfRowOnly(allRows) ==
  [i \in RowIds |-> IF i = idx THEN allRows[i]
                     ELSE [allRows[i] EXCEPT !.response = <<>>]]

\* writeCsvPrompts / saveResults: the whole table replaces the file
saveResults(allRows) == allRows

\* a test that retries failed rows whatever the run's option says
shouldProcessRowAlwaysRetry(row) ==
  row.response = <<>> \/ includes(row.response, errorIdentifier)

\* CsvProcessor.shouldProcessRow
shouldProcessRow(row) ==
  IF row.response = <<>> THEN TRUE
  ELSE IF retryFailedRows /\ includes(row.response, errorIdentifier) THEN TRUE
  ELSE FALSE

\* CsvService.processRow: its inline skip test
skipsRowCsvService(row) ==
  row.response # <<>>
    /\ (~retryFailedRows \/ ~includes(row.response, errorIdentifier))

\* an end of processRow that the loop does not wait for: the row is still in
\* hand when the next one begins
EndRowNotAwaited(newRows) ==
  /\ rows' = newRows
  /\ disk' = saveResults(newRows)
  /\ visited' = visited
  /\ IF isLastIndex(idx)
       THEN pc' = "done" /\ idx' = idx
       ELSE pc' = "row" /\ idx' = nextIndex(idx)

\* an end of processRow without the finally block's save
EndRowWithoutSave(newRows) ==
  /\ rows' = newRows
  /\ disk' = disk
  /\ visited' = visited \cup {idx}
  /\ IF isLastIndex(idx)
       THEN pc' = "done" /\ idx' = idx
       ELSE pc' = "row" /\ idx' = nextIndex(idx)

\* the end of processRow: the finally block's save, then the loop's step
EndRow(newRows) ==
  /\ rows' = newRows
  /\ disk' = saveResults(newRows)
  /\ visited' = visited \cup {idx}
  /\ IF isLastIndex(idx)
       THEN pc' = "done" /\ idx' = idx
       ELSE pc' = "row" /\ idx' = nextIndex(idx)

(***************************************************************************)
(* processRows up to its loop.                                             *)
(***************************************************************************)
StartRun ==
  /\ pc = "start"
  /\ rows' = disk
  /\ startRows' = disk
  /\ idx' = firstIndex
  /\ pc' = "row"
  /\ UNCHANGED <<impl, retryFailedRows, processInReverse, disk, retryCount, run,
                 sent, nAttempts, visited, lastOutcome, recorded, page, wait, main, send>>

(***************************************************************************)
(* processRow up to the call of processRowWithRetry / processPrompt.       *)
(***************************************************************************)
\* a counter that starts where the row's error result says the last run ended
startRetryCountCarried(row) ==
  IF includes(row.response, errorIdentifier) THEN maxRetries ELSE 0

\* let retryCount = 0: the counter is a local of processRowWithRetry
startRetryCount(row) == 0

BeginRow ==
  /\ pc = "row"
  /\ LET row == rows[idx]
         skip == IF impl = "CsvProcessor"
                   THEN ~shouldProcessRow(row) \/ row.prompt = ""
                   ELSE skipsRowCsvService(row) \/ row.prompt = ""
     IN IF skip
          THEN /\ EndRow(rows)
               /\ UNCHANGED <<retryCount, nAttempts>>
          ELSE /\ pc' = "attempt"
               /\ retryCount' = startRetryCount(row)
               /\ nAttempts' = 0
               /\ UNCHANGED <<rows, disk, idx, visited>>
  /\ UNCHANGED <<impl, retryFailedRows, processInReverse, run, sent,
                 startRows, lastOutcome, recorded, page, wait, main, send>>

(***************************************************************************)
(* CsvProcessor.processRowWithRetry: one turn of its while loop, with      *)
(* handleRowError when the turn throws.  shot: the error screenshot of     *)
(* handleRowError is taken.                                                *)
(***************************************************************************)
\* a validation that throws on the last turn of the loop too
retriesRemainAlways(rc) == rc <= maxRetries

\* a test that gives up one attempt early
retriesExhaustedEarly(rc) == rc >= maxRetries

\* the test that lets a response of the wrong format throw
retriesRemain(rc) == rc < maxRetries

\* the test of handleRowError and of the loop's break, on the counter just raised
retriesExhausted(rc) == rc > maxRetries

\* Math.min
min(a, b) == IF a < b THEN a ELSE b

\* a delay that doubles without a ceiling
retryDelayUncapped(rc) == initialRetryDelay * 2^(rc - 1)

\* handleRetry: the delay it sleeps before the attempt that follows the
\* rc-th failure
retryDelay(rc) == min(initialRetryDelay * 2^(rc - 1), maxRetryDelay)

SelectorErr == "Waiting for selector failed"

\* the first turn of the loop: handleRetry is not called
NoRetry == [delay |-> 0, entry |-> "none", threw |-> FALSE, err |-> ""]

\* a handleRetry whose check of the chat textarea is not guarded
handleRetryUnguarded(rc, textarea) ==
  [delay |-> retryDelay(rc),
   entry |-> IF textarea THEN "confirmed" ELSE "missing",
   threw |-> ~textarea,
   err |-> IF textarea THEN "" ELSE SelectorErr]

\* handleRetry: it sleeps retryDelay, then waits for the chat textarea and
\* goes on whether it has appeared or not.  textarea: it appears in time.
handleRetry(rc, textarea) ==
  [delay |-> retryDelay(rc),
   entry |-> IF textarea THEN "confirmed" ELSE "missing",
   threw |-> FALSE,
   err |-> ""]

AttemptCsvProcessor(sendOutcome, shot, textarea) ==
  /\ pc = "attempt"
  /\ impl = "CsvProcessor"
  /\ LET h == IF retryCount > 0 THEN handleRetry(retryCount, textarea) ELSE NoRetry
         o == IF h.threw THEN Thr(h.err) ELSE sendOutcome
         invalid == o.type = "return" /\ ~validateResponseFormat(o.payload)
                      /\ retriesRemain(retryCount)
         threw == o.type = "throw" \/ invalid
         err == IF o.type = "throw" THEN o.msg ELSE FormatErr
         outcome == [row |-> idx, type |-> o.type, kind |-> o.kind,
                     partial |-> o.partial, payload |-> o.payload,
                     err |-> IF threw THEN err ELSE "",
                     retryCount |-> retryCount, attempt |-> nAttempts + 1,
                     delay |-> h.delay, entry |-> h.entry, prompted |-> ~h.threw]
         stored == [rows EXCEPT ![idx].response = o.payload]
         failed == [rows EXCEPT ![idx].response = ErrorResultCsvProcessor(err)]
     IN /\ lastOutcome' = outcome
        /\ sent' = IF h.threw THEN sent ELSE sent \cup {idx}
        /\ nAttempts' = nAttempts + 1
        /\ CASE o.type = "unhandled" ->
               /\ pc' \in {"crashed", "hung"}
               /\ UNCHANGED <<rows, disk, idx, visited, retryCount, recorded>>
          [] o.type = "return" /\ ~invalid ->
               /\ rows' = stored
               /\ disk' = saveResults(stored)
               /\ pc' = "finish"
               /\ UNCHANGED <<idx, visited, retryCount, recorded>>
          [] threw ->
               /\ retryCount' = retryCount + 1
               /\ IF ~shot
                    THEN \* handleRowError throws: processRow's catch, then its finally
                         /\ EndRow(rows)
                         /\ UNCHANGED recorded
                    ELSE IF retriesExhausted(retryCount + 1)
                    THEN /\ rows' = failed
                         /\ disk' = saveResults(failed)
                         /\ recorded' = recorded \cup {idx}
                         /\ pc' = "finish"
                         /\ UNCHANGED <<idx, visited>>
                    ELSE /\ pc' = "attempt"
                         /\ UNCHANGED <<rows, disk, idx, visited, recorded>>
  /\ UNCHANGED <<impl, retryFailedRows, processInReverse, run, startRows,
                 page, wait, main, send>>

(***************************************************************************)
(* CsvService.processPrompt.  shot1: the confirmation screenshot after the *)
(* response is taken; shot2: the error screenshot of the catch block is.   *)
(***************************************************************************)
AttemptCsvService(o, shot1, shot2) ==
  /\ pc = "attempt"
  /\ impl = "CsvService"
  /\ sent' = sent \cup {idx}
  /\ nAttempts' = nAttempts + 1
  /\ LET threw == o.type = "throw" \/ (o.type = "return" /\ ~shot1)
         err == IF o.type = "throw" THEN o.msg ELSE ShotErr
         outcome == [row |-> idx, type |-> o.type, kind |-> o.kind,
                     partial |-> o.partial, payload |-> o.payload,
                     err |-> IF threw THEN err ELSE "",
                     retryCount |-> 0, attempt |-> nAttempts + 1,
                     delay |-> 0, entry |-> "none", prompted |-> TRUE]
         stored == [rows EXCEPT ![idx].response = o.payload]
         failed == [rows EXCEPT ![idx].response = ErrorResultCsvService(err)]
     IN /\ lastOutcome' = outcome
        /\ CASE o.type = "unhandled" ->
               /\ disk' = saveResults(rows)
               /\ pc' \in {"crashed", "hung"}
               /\ UNCHANGED <<rows, idx, visited, recorded>>
          [] o.type = "return" /\ shot1 ->
               /\ rows' = stored
               /\ disk' = saveResults(stored)
               /\ pc' = "finish"
               /\ UNCHANGED <<idx, visited, recorded>>
          [] threw ->
               /\ recorded' = recorded \cup {idx}
               /\ IF shot2
                    THEN /\ rows' = failed
                         /\ disk' = IF o.type = "return" THEN saveResults(stored)
                                    ELSE saveResults(rows)
                         /\ pc' = "finish"
                         /\ UNCHANGED <<idx, visited>>
                    ELSE \* the catch block throws: processRow's catch, then its finally
                         EndRow(failed)
  /\ UNCHANGED <<impl, retryFailedRows, processInReverse, run, startRows,
                 retryCount, page, wait, main, send>>

(***************************************************************************)
(* finishRowProcessing (the delay between rows), then processRow's finally.*)
(***************************************************************************)
FinishRow ==
  /\ pc = "finish"
  /\ EndRow(rows)
  /\ UNCHANGED <<impl, retryFailedRows, processInReverse, retryCount, run,
                 sent, nAttempts, startRows, lastOutcome, recorded, page, wait, main, send>>

(***************************************************************************)
(* A second run of the program over the file the first run left, with      *)
(* --no-retry.                                                             *)
(***************************************************************************)
StartSecondRun ==
  /\ pc = "done"
  /\ run = 1
  /\ run' = 2
  /\ retryFailedRows' = FALSE
  /\ processInReverse' \in BOOLEAN
  /\ pc' = "start"
  /\ idx' = 0
  /\ retryCount' = 0
  /\ sent' = {}
  /\ nAttempts' = 0
  /\ visited' = {}
  /\ startRows' = disk
  /\ lastOutcome' = NoOutcome
  /\ recorded' = {}
  /\ UNCHANGED <<impl, rows, disk, page, wait, main, send>>

Next ==
  \/ StartRun
  \/ BeginRow
  \/ \E o \in SendOutcomes, shot \in BOOLEAN,
          textarea \in (IF retryCount > 0 THEN BOOLEAN ELSE {TRUE}) :
       AttemptCsvProcessor(o, shot, textarea)
  \/ \E o \in SendOutcomes, shot1, shot2 \in BOOLEAN : AttemptCsvService(o, shot1, shot2)
  \/ FinishRow

Spec == Init /\ [][Next]_vars

NextResume == Next \/ StartSecondRun

(***************************************************************************)
(* A second run of the program over the file the first run left, with      *)
(* the retry of failed rows enabled, as it is by default.  The runs looked *)
(* at: a first run in forward order over pending rows, which records a     *)
(* failure for some rows and gets a graded response for the others.        *)
(***************************************************************************)
StartRetryRun ==
  /\ pc = "done"
  /\ run = 1
  /\ recorded # {}
  /\ \A i \in RowIds \ recorded : disk[i].response = GoodGrade
  /\ run' = 2
  /\ retryFailedRows' = TRUE
  /\ pc' = "start"
  /\ idx' = 0
  /\ retryCount' = 0
  /\ sent' = {}
  /\ nAttempts' = 0
  /\ visited' = {}
  /\ startRows' = disk
  /\ lastOutcome' = NoOutcome
  /\ recorded' = {}
  /\ UNCHANGED <<impl, processInReverse, rows, disk, page, wait, main, send>>

\* the first run finds rows that are pending
InitRetryRun ==
  /\ Init
  /\ retryFailedRows
  /\ ~processInReverse
  /\ \A i \in RowIds : disk[i].prompt # "" /\ disk[i].response = <<>>

NextRetryRun == Next \/ StartRetryRun

SpecRetryRun == InitRetryRun /\ [][NextRetryRun]_vars

SpecResume == Init /\ [][NextResume]_vars

(***************************************************************************)
(* A run that the process does not survive.  The file is written by        *)
(* fs.writeFileSync, which truncates it and then writes the new text: a    *)
(* process killed in the middle leaves the first lines of the new table,   *)
(* k rows of it.  CsvService.writeCsvPrompts copies the file to a backup    *)
(* before it writes, once: only when no backup exists yet; the writeCsvPrompts*)
(* of CsvProcessor keeps no backup.                                        *)
(***************************************************************************)
\* the file a write leaves when the process dies after k rows of it
tornWrite(allRows, k) == [i \in 1..k |-> allRows[i]]

\* the backup file during a run: the file as the run's first write found it
backupFile == [exists |-> impl = "CsvService", rows |-> startRows]

\* the process dies between two writes
Crash ==
  /\ pc \in {"row", "attempt", "finish"}
  /\ pc' = "crashed"
  /\ UNCHANGED <<impl, retryFailedRows, processInReverse, rows, disk, idx,
                 retryCount, run, sent, nAttempts, visited, startRows,
                 lastOutcome, recorded, page, wait, main, send>>

\* the process dies in the write of processRow's finally block
CrashInWrite(k) ==
  /\ pc = "finish"
  /\ pc' = "crashed"
  /\ disk' = tornWrite(rows, k)
  /\ UNCHANGED <<impl, retryFailedRows, processInReverse, rows, idx,
                 retryCount, run, sent, nAttempts, visited, startRows,
                 lastOutcome, recorded, page, wait, main, send>>

NextCrash ==
  \/ Next
  \/ Crash
  \/ \E k \in 0..(NumRows - 1) : CrashInWrite(k)

SpecCrash == Init /\ [][NextCrash]_vars

(***************************************************************************)
(* main of index.ts around the run.  A failure of the setup is thrown to   *)
(* main's outer catch, which calls process.exit(1); a return of main lets  *)
(* the process end by itself, with code 0 unless something that is still   *)
(* scheduled fails.  batchVarsOfMain: what main's own steps leave alone.   *)
(***************************************************************************)
Exited(code, cause) ==
  [pc |-> "exited", exited |-> TRUE, exitCode |-> code, cause |-> cause]

\* main when validateCsvFile has returned false: it returns
validateFailure == Exited(0, "missing file")

\* waitForAssistantResponse has left its timeout timer behind: the last call
\* ended by its response promise, which does not clear the timer
staleTimeoutTimer ==
  lastOutcome.type = "return" /\ lastOutcome.kind \in {"COMPLETE", "FORCED"}

MainStep(next) ==
  /\ ~main.exited
  /\ main' = next
  /\ UNCHANGED <<impl, retryFailedRows, processInReverse, rows, disk, pc, idx,
                 retryCount, run, sent, nAttempts, visited, startRows,
                 lastOutcome, recorded, page, wait, send>>

\* csvProcessor.validateCsvFile(options.csvPath)
ValidateCsv(exists) ==
  /\ main.pc = "validate"
  /\ MainStep(IF exists THEN [main EXCEPT !.pc = "initialize"] ELSE validateFailure)

\* browserService.initialize()
InitializeBrowser(ok) ==
  /\ main.pc = "initialize"
  /\ MainStep(IF ok THEN [main EXCEPT !.pc = "authenticate"]
                    ELSE Exited(1, "no browser"))

\* authService.authenticate(page): true, false, or an exception
Authenticate(authenticated) ==
  /\ main.pc = "authenticate"
  /\ MainStep(IF authenticated THEN [main EXCEPT !.pc = "open"]
                               ELSE Exited(1, "no session"))

\* loadCookies, page.goto(chatGptProjectUrl), waitForChatInterface
OpenChat(interfaceReady) ==
  /\ main.pc = "open"
  /\ MainStep(IF interfaceReady THEN [main EXCEPT !.pc = "processRows"]
                                ELSE Exited(1, "no session"))

\* a step of processRows, called by main
RunStep ==
  /\ main.pc = "processRows"
  /\ ~main.exited
  /\ Next

\* processRows has returned: the browser is closed and main returns.  A
\* timeout timer left behind fires after that, its screenshot is rejected by
\* the closed page and nothing handles the rejection; fatal: the runtime
\* ends the process for it (the default since Node 15).
CloseAndReturn(fatal) ==
  /\ main.pc = "processRows"
  /\ pc = "done"
  /\ MainStep(Exited(IF staleTimeoutTimer /\ fatal THEN 1 ELSE 0, ""))

\* an unhandled rejection during the run ends the process
DieOfRejection ==
  /\ main.pc = "processRows"
  /\ pc = "crashed"
  /\ MainStep(Exited(1, "unhandled rejection"))

InitMain ==
  /\ impl \in {"CsvProcessor", "CsvService"}
  /\ retryFailedRows \in BOOLEAN
  /\ processInReverse \in BOOLEAN
  /\ disk \in [RowIds -> RowSet]
  /\ rows = disk
  /\ pc = "start"
  /\ idx = 0
  /\ retryCount = 0
  /\ run = 1
  /\ sent = {}
  /\ nAttempts = 0
  /\ visited = {}
  /\ startRows = disk
  /\ lastOutcome = NoOutcome
  /\ recorded = {}
  /\ page = LoadedPage
  /\ wait = NotWaiting
  /\ main = AtStart
  /\ send = NotSending

NextMain ==
  \/ \E exists \in BOOLEAN : ValidateCsv(exists)
  \/ \E ok \in BOOLEAN : InitializeBrowser(ok)
  \/ \E authenticated \in BOOLEAN : Authenticate(authenticated)
  \/ \E interfaceReady \in BOOLEAN : OpenChat(interfaceReady)
  \/ RunStep
  \/ \E fatal \in BOOLEAN : CloseAndReturn(fatal)
  \/ DieOfRejection

SpecMain == InitMain /\ [][NextMain]_vars

(***************************************************************************)
(* waitForAssistantResponse.  Time advances by seconds; the callbacks due  *)
(* at one second run one after the other, each as a whole: the check       *)
(* interval's, the progress interval's, the timeout's.                     *)
(***************************************************************************)
\* a detector that takes no URL for a new chat
isNewChatNever(url) == FALSE

\* currentUrl.includes('/new') || currentUrl.includes('/c/new')
isNewChat(url) == includes(url, "/new")

\* getLatestResponse: the text of the latest message, '' on any error
getLatestResponse(p) == IF p.alive THEN p.len ELSE 0

\* what the function sets up once the send button is disabled
allScheduled ==
  {"responseCheckInterval", "progressCheckInterval", "timeoutTimer",
   "navigationListener"}

\* what the function clears when the race is over, on either way out
cleared == {"responseCheckInterval", "progressCheckInterval"}

\* the function returns text: a text of length len, or the text err
Returned(w, kind, len, err) ==
  [w EXCEPT !.dpc = "returned", !.kind = kind, !.len = len, !.err = err,
            !.scheduled = @ \ cleared]

\* the function throws
Threw(w, kind, err) ==
  [w EXCEPT !.dpc = "threw", !.kind = kind, !.len = 0, !.err = err,
            !.scheduled = @ \ cleared]

\* an outer catch block that returns what it has, be it nothing
CaughtReturnsAnyway(w, p, kind, error) ==
  Returned(w, kind, IF p.alive /\ p.matches THEN p.len ELSE 0, "")

\* the outer catch block: a screenshot, then the partial text if there is one
Caught(w, p, kind, error) ==
  IF ~p.shots THEN Threw(w, kind, ShotErr)
  ELSE IF p.alive /\ p.matches /\ p.len > 0 THEN Returned(w, kind, p.len, "")
  ELSE Threw(w, kind, error)

\* resolve(...): the race is won, the final screenshot is taken
Resolve(w, p, kind, len, err) ==
  IF p.shots THEN Returned(w, kind, len, err)
  ELSE Caught(w, p, kind, ShotErr)

\* a rejection inside a timer callback, which nothing handles: the process
\* ends, or the callback is lost and the wait goes on
UnhandledRejection(w, abort) ==
  IF abort THEN [w EXCEPT !.dpc = "crashed"] ELSE w

\* an isResponseComplete that looks for the Regenerate button first
isResponseCompleteRegenerateFirst(p) ==
  IF isNewChat(p.url) THEN TRUE
  ELSE IF ~p.alive THEN FALSE
  ELSE IF p.regen THEN TRUE
  ELSE IF ~p.btnDisabled THEN p.shots
  ELSE FALSE

\* isResponseComplete: its result; whatever throws inside makes it false
isResponseComplete(p) ==
  IF isNewChat(p.url) THEN TRUE
  ELSE IF ~p.alive THEN FALSE
  ELSE IF ~p.btnDisabled THEN p.shots
  ELSE p.regen

\* isResponseComplete has reached its third test and found the Continue button
seesContinueButton(p) ==
  ~isNewChat(p.url) /\ p.alive /\ p.btnDisabled /\ ~p.regen /\ p.cont

\* a check that lets the failure of a probe end the wait
probeFailureRejects(w) == Threw(w, "PROBE", "probe failed")

\* catch (err) { /* Ignore errors during checks */ }
probeFailure(w) == w

\* a callback that asks isResponseComplete first and looks at the URL after
responseCheckCompletionFirst(w, p) ==
  LET w1 == [w EXCEPT !.checkCount = @ + 1, !.currentUrl = p.url]
      partialResponse == IF p.shots THEN getLatestResponse(p) ELSE 0
  IN IF isResponseComplete(p) /\ getLatestResponse(p) > 0
       THEN Resolve(w1, p, "COMPLETE", p.len, "")
     ELSE IF p.url # w.initialUrl /\ isNewChat(p.url)
       THEN Resolve(w1, p, "SESSION_LOST", partialResponse,
                    IF partialResponse > 0 THEN "" ELSE NavErrDuring)
     ELSE w1

\* the callback of responseCheckInterval
responseCheck(w, p) ==
  LET w1 == [w EXCEPT !.checkCount = @ + 1, !.currentUrl = p.url]
  IN IF p.url # w.initialUrl /\ isNewChat(p.url)
       THEN LET partialResponse == IF p.shots THEN getLatestResponse(p) ELSE 0
            IN Resolve(w1, p, "SESSION_LOST", partialResponse,
                       IF partialResponse > 0 THEN "" ELSE NavErrDuring)
     ELSE
       LET responseComplete == isResponseComplete(p)
           w2 == [w1 EXCEPT !.maxStableTime =
                     IF seesContinueButton(p) THEN continueMaxStableTime ELSE @]
           currentLength == p.len
           w3 == [w2 EXCEPT !.lastProgressUpdate =
                     IF currentLength * 4 > w2.lastLength * 5 \/ w2.checkCount % 4 = 0
                       THEN w2.now ELSE @,
                                !.seenLength = currentLength,
                                !.sameSince = IF currentLength = w2.seenLength
                                                THEN @ ELSE w2.now]
       IN IF responseComplete /\ getLatestResponse(p) > 0
            THEN Resolve(w2, p, "COMPLETE", p.len, "")
          ELSE IF ~p.alive
            THEN probeFailure(w2)
          ELSE IF ~(p.matches /\ p.len > 0)
            THEN w2
          ELSE IF currentLength > 0 /\ currentLength = w3.lastLength
            THEN IF (w3.stableCount + 1) * checkInterval >= w3.maxStableTime
                      /\ p.shots
                   THEN Resolve([w3 EXCEPT !.stableCount = @ + 1], p,
                                "STABLE", currentLength, "")
                   ELSE [w3 EXCEPT !.stableCount = @ + 1]
          ELSE [w3 EXCEPT !.stableCount = 0, !.lastProgressUpdate = w3.now,
                          !.lastLength = currentLength]

\* the callback of progressCheckInterval
progressCheck(w, p, abort) ==
  LET totalElapsed == w.now - w.responseStartTime
      responseText == getLatestResponse(p)
      read == IF /\ totalElapsed > progressAfter
                 /\ w.now - w.lastProgressUpdate > progressQuiet
                 /\ responseText # w.seenLength
                THEN [w EXCEPT !.seenLength = responseText, !.sameSince = w.now]
                ELSE w
      w1 == IF /\ totalElapsed > progressAfter
               /\ w.now - w.lastProgressUpdate > progressQuiet
               /\ responseText > w.lastLength
              THEN [read EXCEPT !.lastLength = responseText,
                                !.lastProgressUpdate = w.now]
              ELSE read
      noProgressTime == w1.now - w1.lastProgressUpdate
  IN IF totalElapsed * 2 > Timeout /\ noProgressTime > stuckAfter /\ w1.lastLength > 0
       THEN IF p.shots THEN Resolve(w1, p, "FORCED", getLatestResponse(p), "")
            ELSE UnhandledRejection(w1, abort)
       ELSE w1

\* the callback of the timeout promise's timer
timeoutCheck(w, p, abort) ==
  LET fired == [w EXCEPT !.scheduled = @ \ {"timeoutTimer"}]
  IN IF w.now - w.responseStartTime # Timeout THEN w
     ELSE IF p.shots THEN Caught(fired, p, "TIMEOUT", TimeoutErr)
     ELSE UnhandledRejection([fired EXCEPT !.timerLost = TRUE], abort)

\* the function up to page.waitForFunction
StartWait ==
  /\ wait.dpc = "idle"
  /\ wait' = IF ~page.shots
               THEN Caught(wait, page, "START", ShotErr)
             ELSE IF page.url # wait.initialUrl /\ isNewChat(page.url)
               THEN Returned(wait, "SESSION_LOST", 0, NavErrBefore)
             ELSE [wait EXCEPT !.dpc = "button"]
  /\ UNCHANGED <<batchVars, page>>

\* page.waitForFunction for the disabled send button, a second of it
ButtonTick ==
  /\ wait.dpc = "button"
  /\ LET w == [wait EXCEPT !.now = @ + 1]
     IN wait' = IF ~page.alive
                  THEN Caught(w, page, "BUTTON", ButtonErr)
                ELSE IF page.btnDisabled
                  THEN [w EXCEPT !.dpc = "polling", !.responseStartTime = w.now,
                                 !.lastProgressUpdate = w.now,
                                 !.scheduled = allScheduled]
                ELSE IF w.now >= buttonTimeout
                  THEN Caught(w, page, "BUTTON", ButtonErr)
                ELSE w
  /\ UNCHANGED <<batchVars, page>>

\* a second of the race between responsePromise and timeoutPromise
PollTick(abort) ==
  /\ wait.dpc = "polling"
  /\ wait.now < MaxTime
  /\ LET w == [wait EXCEPT !.now = @ + 1]
         a == IF (w.now - w.responseStartTime) % checkInterval = 0
                THEN responseCheck(w, page) ELSE w
         b == IF a.dpc = "polling" THEN progressCheck(a, page, abort) ELSE a
         c == IF b.dpc = "polling" /\ ~b.timerLost
                THEN timeoutCheck(b, page, abort) ELSE b
     IN wait' = c
  /\ UNCHANGED <<batchVars, page>>

(***************************************************************************)
(* What the page does while the function waits.                            *)
(***************************************************************************)
PageChange(p) ==
  /\ wait.dpc \in {"idle", "button", "polling"}
  /\ page.changes < MaxChanges
  /\ page' = [p EXCEPT !.changes = page.changes + 1]
  /\ UNCHANGED batchVars

\* the callback of page.once('framenavigated'), which runs once
framenavigated(w, newUrl) ==
  IF "navigationListener" \in w.scheduled
    THEN [w EXCEPT !.hasNavigated = (newUrl # w.initialUrl),
                   !.scheduled = @ \ {"navigationListener"}]
    ELSE w

\* the page goes to another URL; the page found there may show the text or
\* not, and on a new chat its send button may be enabled
Navigate ==
  \E u \in Urls \ {page.url}, l \in {page.len, 0}, b \in BOOLEAN :
    /\ b # page.btnDisabled => ~b /\ u = NewChatUrl
    /\ PageChange([page EXCEPT !.url = u, !.len = l, !.btnDisabled = b,
                               !.own = IF l = 0 THEN FALSE ELSE @])
    /\ wait' = framenavigated(wait, u)

\* the answer to the message just sent appears, or grows; it may stop there
\* as a partial answer, with the Continue button under it
Grow ==
  \E partial \in BOOLEAN :
    /\ page.len < MaxLen
    /\ partial => ~page.cont
    /\ PageChange([page EXCEPT !.len = @ + 1, !.own = TRUE,
                               !.cont = @ \/ partial])
    /\ UNCHANGED wait

ToggleSendButton ==
  /\ page.alive
  /\ PageChange([page EXCEPT !.btnDisabled = ~@])
  /\ UNCHANGED wait

ShowRegenerate ==
  /\ ~page.regen
  /\ PageChange([page EXCEPT !.regen = TRUE])
  /\ UNCHANGED wait

ShowContinue ==
  /\ ~page.cont
  /\ PageChange([page EXCEPT !.cont = TRUE])
  /\ UNCHANGED wait

\* the page's execution context is lost: its evaluations reject
ProbesFail ==
  /\ page.alive
  /\ PageChange([page EXCEPT !.alive = FALSE])
  /\ UNCHANGED wait

\* screenshots can no longer be written
ShotsFail ==
  /\ page.shots
  /\ PageChange([page EXCEPT !.shots = FALSE])
  /\ UNCHANGED wait

\* the page crashes or is closed, and changes no more
Die ==
  /\ page.alive
  /\ wait.dpc \in {"idle", "button", "polling"}
  /\ page.changes < MaxChanges
  /\ page' = [page EXCEPT !.alive = FALSE, !.shots = FALSE, !.changes = MaxChanges]
  /\ UNCHANGED <<batchVars, wait>>

InitDetector ==
  /\ impl = "CsvService"
  /\ retryFailedRows = FALSE
  /\ processInReverse = FALSE
  /\ disk = [i \in RowIds |-> [prompt |-> "P", response |-> <<>>]]
  /\ rows = disk
  /\ pc = "attempt"
  /\ idx = 1
  /\ retryCount = 0
  /\ run = 1
  /\ sent = {}
  /\ nAttempts = 0
  /\ visited = {}
  /\ startRows = disk
  /\ lastOutcome = NoOutcome
  /\ recorded = {}
  /\ page \in {[LoadedPage EXCEPT !.btnDisabled = b, !.matches = m, !.len = l] :
                  b, m \in BOOLEAN, l \in {0, 1}}
  /\ wait = NotWaiting
  /\ main = InProcessRows
  /\ send = NotSending

NextDetector ==
  \/ StartWait
  \/ ButtonTick
  \/ \E abort \in BOOLEAN : PollTick(abort)
  \/ Navigate
  \/ Grow
  \/ ToggleSendButton
  \/ ShowRegenerate
  \/ ShowContinue
  \/ ProbesFail
  \/ ShotsFail
  \/ Die

SpecDetector == InitDetector /\ [][NextDetector]_vars

(***************************************************************************)
(* The race from its first check on, whatever the page has become by then. *)
(***************************************************************************)
\* the pages a check may find
Pages ==
  [url : Urls, len : 0..MaxLen, btnDisabled : BOOLEAN, regen : BOOLEAN,
   cont : BOOLEAN, alive : BOOLEAN, shots : BOOLEAN, matches : BOOLEAN,
   changes : {0}, own : {FALSE}]

\* the send button was found disabled after one second, and the second of
\* the first check is about to come
InitPoll ==
  /\ impl = "CsvService"
  /\ retryFailedRows = FALSE
  /\ processInReverse = FALSE
  /\ disk = [i \in RowIds |-> [prompt |-> "P", response |-> <<>>]]
  /\ rows = disk
  /\ pc = "attempt"
  /\ idx = 1
  /\ retryCount = 0
  /\ run = 1
  /\ sent = {}
  /\ nAttempts = 0
  /\ visited = {}
  /\ startRows = disk
  /\ lastOutcome = NoOutcome
  /\ recorded = {}
  /\ page \in Pages
  /\ wait = [NotWaiting EXCEPT !.dpc = "polling", !.now = checkInterval,
                               !.responseStartTime = 1,
                               !.lastProgressUpdate = 1,
                               !.scheduled = allScheduled]
  /\ main = InProcessRows
  /\ send = NotSending

NextPoll == \E abort \in BOOLEAN : PollTick(abort)

SpecPoll == InitPoll /\ [][NextPoll]_vars

(***************************************************************************)
(* sendMessageWithAttachments, step by step: the text is entered, the      *)
(* files are uploaded, the text is verified, the message is sent by up to  *)
(* three approaches, and the response is waited for.  The page answers     *)
(* each step through the inputs of the actions.                            *)
(***************************************************************************)
MaxFiles == 2

\* the files of the row that exist, without duplicates
Files(s) == 1..s.nFiles

Samples ==
  [spinner : BOOLEAN, otherLoading : BOOLEAN, fileIndicators : BOOLEAN]

\* waitForLoadingToComplete: no loading indicator is left; a timeout is
\* caught and answered with false
waitForLoadingToComplete(sample) == ~sample.spinner /\ ~sample.otherLoading

\* a waitForFileIndicators that does not look for the spinner
fileIndicatorsOnly(sample) == sample.fileIndicators

\* the function that waitForFileIndicators hands to page.waitForFunction
fileIndicatorsFound(sample) == ~sample.spinner /\ sample.fileIndicators

\* waitForFileIndicators.  sample: the sample at which page.waitForFunction
\* resolves, or the last one before its timeout
waitForFileIndicators(sample) == fileIndicatorsFound(sample)

\* waitForUploadToComplete: what waitForLoadingToComplete returns is not used
waitForUploadToComplete(before, sample) ==
  LET loaded == waitForLoadingToComplete(before)
  IN waitForFileIndicators(sample)

SendThrew(s, err) == [s EXCEPT !.spc = "threw", !.err = err]

SendStep(next) ==
  /\ send' = next
  /\ UNCHANGED <<impl, retryFailedRows, processInReverse, rows, disk, pc, idx,
                 retryCount, run, sent, nAttempts, visited, startRows,
                 lastOutcome, recorded, page, wait, main>>

\* safelyEnterText, then the test of attachments.length
EnterText(ok) ==
  /\ send.spc = "idle"
  /\ SendStep(IF ~ok THEN SendThrew(send, "Failed to enter text")
              ELSE [send EXCEPT !.text = TRUE,
                                !.spc = IF send.nFiles > 0 THEN "attach"
                                        ELSE "verify"])

\* uploadMultipleAttachments as handleAttachments calls it.  threw: the
\* upload menu, the file input, the upload or the screenshot failed, and
\* handleAttachments goes on to the single uploads (useMultiUpload is put to
\* FALSE to say that the multi-upload has been tried).  took: the files the
\* page has taken when the function returns.
UploadMultiple(threw, took, before, sample) ==
  /\ send.spc = "attach"
  /\ send.useMultiUpload /\ send.nFiles > 1
  /\ took \subseteq Files(send)
  /\ SendStep(IF threw
                THEN [send EXCEPT !.useMultiUpload = FALSE]
                ELSE [send EXCEPT
                        !.attached = took,
                        !.sample = sample,
                        !.uploadConfirmed = waitForUploadToComplete(before, sample),
                        !.confirmed = IF waitForUploadToComplete(before, sample)
                                        THEN Files(send) ELSE {},
                        !.spc = "verify"])

\* uploadAttachment for the file send.next, inside the loop of
\* handleAttachments, whose catch logs what is thrown and goes on
UploadOne(threw, took, before, sample) ==
  /\ send.spc = "attach"
  /\ ~(send.useMultiUpload /\ send.nFiles > 1)
  /\ LET i == send.next
         done == IF threw THEN send
                 ELSE [send EXCEPT
                         !.attached = IF took THEN @ \cup {i} ELSE @,
                         !.sample = sample,
                         !.uploadConfirmed = waitForUploadToComplete(before, sample),
                         !.confirmed = IF waitForUploadToComplete(before, sample)
                                         THEN @ \cup {i} ELSE @]
     IN SendStep([done EXCEPT !.next = i + 1,
                              !.spc = IF i = send.nFiles THEN "verify" ELSE @])

\* verifyTextBeforeSending, with its one recovery
VerifyText(present, recovered) ==
  /\ send.spc = "verify"
  /\ SendStep(IF present \/ recovered
                THEN [send EXCEPT !.text = TRUE, !.spc = "sendMessage"]
                ELSE SendThrew([send EXCEPT !.text = FALSE],
                               "Failed to recover text before sending message"))

\* sendMessage up to the call of trySendingWithMultipleApproaches
SendMessage(present, isDisabled) ==
  /\ send.spc = "sendMessage"
  /\ SendStep(IF ~present THEN SendThrew(send, "Waiting for selector failed")
              ELSE IF isDisabled THEN SendThrew(send, "Send button is disabled")
              ELSE [send EXCEPT !.spc = "approach", !.approach = 1])

\* the click events that an approach gives the page in one task: jsClick
\* calls click() and dispatches a click at once (and clicks once more
\* 100 ms later)
eventsAtOnce(approach) == IF approach = 1 THEN 2 ELSE 1

\* the page's answer to an approach.  reaction: "ignores" (nothing is
\* submitted), "submits" (the prompt is submitted once and the composer is
\* emptied), "submits each" (every event of the task submits the prompt
\* that the composer still holds).
Reactions == {"ignores", "submits", "submits each"}

submitted(s, reaction) ==
  IF ~s.text \/ reaction = "ignores" THEN 0
  ELSE IF reaction = "submits" THEN 1
  ELSE eventsAtOnce(s.approach)

\* sendMessage once trySendingWithMultipleApproaches has returned success:
\* success is not looked at
sendMessageEnds(s, success, toNewChat, shot) ==
  IF toNewChat
    THEN SendThrew([s EXCEPT !.success = success],
                   "Unexpected navigation to new chat after sending message")
  ELSE IF ~shot THEN SendThrew([s EXCEPT !.success = success], ShotErr)
  ELSE [s EXCEPT !.success = success, !.spc = "wait", !.detectorStarted = TRUE]

\* one turn of the loop of trySendingWithMultipleApproaches, and the rest of
\* sendMessage when the loop ends.  disabledSeen: the send button has its
\* disabled attribute within 5 s.
TryApproach(reaction, disabledSeen, toNewChat, shot) ==
  /\ send.spc = "approach"
  /\ LET n == submitted(send, reaction)
         s == [send EXCEPT !.submissions = @ + n,
                           !.submittedWith = IF send.submissions = 0 /\ n > 0
                                               THEN send.attached ELSE @,
                           !.text = IF n > 0 THEN FALSE ELSE @]
     IN SendStep(IF disabledSeen THEN sendMessageEnds(s, TRUE, toNewChat, shot)
                 ELSE IF send.approach < 3 THEN [s EXCEPT !.approach = @ + 1]
                 ELSE sendMessageEnds(s, FALSE, toNewChat, shot))

\* waitForAssistantResponse and handleResponseError, as a whole
WaitResponse(returns) ==
  /\ send.spc = "wait"
  /\ SendStep(IF returns THEN [send EXCEPT !.spc = "returned"]
              ELSE SendThrew(send, TimeoutErr))

InitSend ==
  /\ impl = "CsvService"
  /\ retryFailedRows = FALSE
  /\ processInReverse = FALSE
  /\ disk = [i \in RowIds |-> [prompt |-> "P", response |-> <<>>]]
  /\ rows = disk
  /\ pc = "attempt"
  /\ idx = 1
  /\ retryCount = 0
  /\ run = 1
  /\ sent = {}
  /\ nAttempts = 0
  /\ visited = {}
  /\ startRows = disk
  /\ lastOutcome = NoOutcome
  /\ recorded = {}
  /\ page = LoadedPage
  /\ wait = NotWaiting
  /\ main = InProcessRows
  /\ send \in {[NotSending EXCEPT !.nFiles = n, !.useMultiUpload = m] :
                 n \in 0..MaxFiles, m \in BOOLEAN}

NextSend ==
  \/ \E ok \in BOOLEAN : EnterText(ok)
  \/ \E threw \in BOOLEAN, took \in SUBSET (1..MaxFiles), before, sample \in Samples :
       UploadMultiple(threw, took, before, sample)
  \/ \E threw, took \in BOOLEAN, before, sample \in Samples :
       UploadOne(threw, took, before, sample)
  \/ \E present, recovered \in BOOLEAN : VerifyText(present, recovered)
  \/ \E present, isDisabled \in BOOLEAN : SendMessage(present, isDisabled)
  \/ \E reaction \in Reactions, disabledSeen, toNewChat, shot \in BOOLEAN :
       TryApproach(reaction, disabledSeen, toNewChat, shot)
  \/ \E returns \in BOOLEAN : WaitResponse(returns)

SpecSend == InitSend /\ [][NextSend]_vars

(***************************************************************************)
(* Properties of the batch processors.                                     *)
(***************************************************************************)

C2_NoErrorAbortsRun ==
  pc \notin {"crashed", "hung"}

\* C3: when every attempt of a row has failed, the row's response is the
\* error identifier followed by the last error's message, in memory and in
\* the file.
C3_ExhaustedRowHoldsErrorResult ==
  \A i \in visited :
    (/\ lastOutcome.row = i
     /\ lastOutcome.err # ""
     /\ lastOutcome.attempt = (IF impl = "CsvProcessor" THEN maxRetries + 1 ELSE 1))
      => LET result == IF impl = "CsvProcessor"
                         THEN ErrorResultCsvProcessor(lastOutcome.err)
                         ELSE ErrorResultCsvService(lastOutcome.err)
         IN rows[i].response = result /\ disk[i].response = result

\* C4 (as stated): a row is sent in a run if and only if it has no response,
\* or it has an error response and retryFailedRows is set.
C4_SentIffPendingOrRetried ==
  \A i \in visited :
    i \in sent <=>
      \/ startRows[i].response = <<>>
      \/ retryFailedRows /\ includes(startRows[i].response, errorIdentifier)

\* C4 (amended): a row is sent in a run if and only if it has a prompt and
\* either has no response, or has an error response while retryFailedRows is
\* set; no other row is ever sent.
C4_SentIffPromptAndPendingOrRetried ==
  LET due(i) == /\ startRows[i].prompt # ""
                /\ \/ startRows[i].response = <<>>
                   \/ retryFailedRows
                        /\ includes(startRows[i].response, errorIdentifier)
  IN /\ \A i \in visited : i \in sent <=> due(i)
     /\ \A i \in sent : due(i)

\* C4 witness: the run has passed a row without a prompt without sending it,
\* and has sent a pending row that has one.
C4_Witness ==
  \E i, j \in visited :
    /\ i \in sent /\ startRows[i].response = <<>>
    /\ j \notin sent /\ startRows[j].prompt = "" /\ startRows[j].response = <<>>

\* C5: a second run with --no-retry over the file a completed first run left
\* sends no prompt and leaves the file as it found it.
C5_SecondRunDoesNothing ==
  run = 2 => sent = {} /\ disk = startRows

\* C6 (as stated): a row recorded as failed has been attempted exactly
\* maxRetries times.
C6_RecordedAfterMaxRetriesAttempts ==
  \A i \in recorded : lastOutcome.row = i => lastOutcome.attempt = maxRetries

\* C6 (amended): a row is recorded as failed after exactly maxRetries + 1
\* attempts by CsvProcessor and after exactly one attempt by CsvService, and
\* no row is attempted more often than that.
C6_RecordedAfterAllAttempts ==
  LET allAttempts == IF impl = "CsvProcessor" THEN maxRetries + 1 ELSE 1
  IN /\ \A i \in recorded : lastOutcome.row = i => lastOutcome.attempt = allAttempts
     /\ nAttempts <= allAttempts
     /\ lastOutcome.attempt <= allAttempts

\* C6 witness: CsvProcessor has recorded a row as failed whose last attempt,
\* the one after the last retry, threw.
C6_Witness ==
  /\ impl = "CsvProcessor"
  /\ lastOutcome.row \in recorded
  /\ lastOutcome.type = "throw"
  /\ lastOutcome.attempt = maxRetries + 1
  /\ rows[lastOutcome.row].response = ErrorResultCsvProcessor(lastOutcome.err)

C10_DetectorReturnsByCeiling ==
  wait.now > buttonTimeout + Timeout => wait.dpc \notin {"button", "polling"}

C12_ProbeFailureSwallowed ==
  (~page.alive /\ page.shots /\ wait.kind \notin {"START", "BUTTON"})
    => /\ wait.dpc # "crashed"
       /\ wait.dpc = "threw" => wait.kind = "TIMEOUT" /\ wait.err = TimeoutErr
       /\ wait.dpc = "polling"
            => wait.checkCount = (wait.now - wait.responseStartTime) \div checkInterval

\* C12 witness: two checks or more have run on a page whose evaluations
\* reject (the text on it was never read), and the wait goes on.
C12_Witness ==
  /\ ~page.alive /\ page.shots
  /\ wait.dpc = "polling"
  /\ wait.checkCount >= 2
  /\ page.matches /\ page.len > 0 /\ page.btnDisabled
  /\ wait.lastLength = 0

(***************************************************************************)
(* Order of the run, and what it leaves.                                   *)
(***************************************************************************)

\* C13: a forward run takes the rows in strictly increasing index order and a
\* reverse run in strictly decreasing order: the rows that have ended are
\* exactly those before the row in hand in that order, the row in hand has not
\* ended before, and when the run is done every row has ended, once.
C13_RowsInOrderOnce ==
  LET before(i) == IF processInReverse
                     THEN {j \in RowIds : j > i}
                     ELSE {j \in RowIds : j < i}
  IN /\ pc \in {"row", "attempt", "finish", "crashed", "hung"}
          => idx \notin visited /\ visited = before(idx)
     /\ pc = "done" => visited = RowIds /\ visited = before(idx) \cup {idx}
     /\ pc = "start" => visited = {}

\* C13 witness: a reverse run has ended every row but the first, which it is
\* sending now.
C13_Witness ==
  /\ processInReverse
  /\ pc = "attempt"
  /\ idx = 1
  /\ visited = 2..NumRows
  /\ sent \cap visited # {}

\* C14: at most one row is in flight: every row that was sent other than the
\* row in hand has ended, with its attempts, its save and its delay, and the
\* row in hand has not ended while it is attempted or delayed.
C14_OneRowInFlight ==
  /\ \A i \in sent : i = idx \/ i \in visited
  /\ pc \in {"attempt", "finish"} => idx \notin visited
  /\ \A i \in RowIds \ visited : i # idx => i \notin sent /\ i \notin recorded

\* C14 witness: a row that was sent has ended, and another row is attempted
\* for the second time.
C14_Witness ==
  /\ pc = "attempt"
  /\ nAttempts >= 1
  /\ idx \in sent
  /\ \E i \in sent : i # idx /\ i \in visited

C16_EveryRowHasOutcome ==
  pc = "done" => \A i \in RowIds : startRows[i].prompt # "" => disk[i].response # <<>>

(***************************************************************************)
(* The retries of CsvProcessor.                                            *)
(***************************************************************************)

\* C17: the delay slept before the attempt that follows the n-th failed
\* attempt is min(initialRetryDelay * 2^(n-1), maxRetryDelay); it does not
\* decrease from one attempt to the next and never exceeds maxRetryDelay; the
\* first attempt of a row is preceded by no delay.
C17_BackoffDoublesUpToCeiling ==
  /\ \A n \in 1..MaxRetryCount :
       /\ retryDelay(n) = (IF initialRetryDelay * 2^(n - 1) <= maxRetryDelay
                             THEN initialRetryDelay * 2^(n - 1)
                             ELSE maxRetryDelay)
       /\ retryDelay(n) <= maxRetryDelay
       /\ n > 1 => retryDelay(n - 1) <= retryDelay(n)
  /\ (impl = "CsvProcessor" /\ lastOutcome.attempt > 1)
       => LET n == lastOutcome.attempt - 1
          IN /\ n \in 1..maxRetries
             /\ lastOutcome.delay = initialRetryDelay * 2^(n - 1)
             /\ lastOutcome.delay <= maxRetryDelay
  /\ lastOutcome.attempt <= 1 => lastOutcome.delay = 0

\* C17 witness: the last attempt of a row was made after three failures and
\* a delay of four times the initial one.
C17_Witness ==
  /\ impl = "CsvProcessor"
  /\ lastOutcome.attempt = maxRetries + 1
  /\ lastOutcome.retryCount = maxRetries
  /\ lastOutcome.delay = 4 * initialRetryDelay

C20_SavedResultSurvivesCrash ==
  [][(pc # "crashed" /\ pc' = "crashed")
       => \A i \in RowIds :
            (i \in visited \cup {idx} /\ disk[i].response # startRows[i].response)
              => \/ i \in DOMAIN disk' /\ disk'[i].response = disk[i].response
                 \/ /\ backupFile.exists
                    /\ backupFile.rows[i].response = disk[i].response]_vars

(***************************************************************************)
(* The exit code.                                                          *)
(***************************************************************************)

\* C21: when the setup fails for good, by a missing CSV file or by a session
\* that is never established, the process ends with an exit code other than 0
\* and no row has been processed.
C21_SetupFailureExitsNonZero ==
  (main.exited /\ main.cause \in {"missing file", "no session"})
    => main.exitCode # 0 /\ sent = {} /\ visited = {}

\* C22: a run that has gone through all the rows ends with exit code 0,
\* whether rows have failed or not.
C22_CompletedRunExitsZero ==
  (main.exited /\ pc = "done") => main.exitCode = 0

(***************************************************************************)
(* The delay between rows.                                                 *)
(***************************************************************************)

\* C23: after every row that was sent, whether it got a response or failed,
\* the delay between rows elapses before the next row starts: processRow ends
\* for such a row only from finishRowProcessing.
C23_DelayAfterEverySentRow ==
  [][(visited' # visited /\ idx \in sent') => pc = "finish"]_vars

(***************************************************************************)
(* The screenshots.                                                        *)
(***************************************************************************)

\* C24: the screenshots only observe: whatever a check of the response finds
\* and decides while the screenshots fail (the state it ends the wait in, the
\* text it returns), it would find and decide if they succeeded.
C24_ScreenshotsOnlyObserve ==
  wait.dpc = "polling"
    => responseCheck(wait, page) = responseCheck(wait, [page EXCEPT !.shots = TRUE])

(***************************************************************************)
(* The retry counter and the next run.                                     *)
(***************************************************************************)

\* C25: the retry counter is not carried from one run to the next: in a run
\* with the retry of failed rows enabled, a row that the file holds as failed
\* is sent again, its first attempt is attempt 1 with the counter at 0, and it
\* is not recorded as failed again before all the attempts of a row are made.
C25_FailedRowRetriedFromAttemptOne ==
  LET allAttempts == IF impl = "CsvProcessor" THEN maxRetries + 1 ELSE 1
      failedBefore(i) == /\ startRows[i].prompt # ""
                         /\ includes(startRows[i].response, errorIdentifier)
  IN /\ (pc = "attempt" /\ nAttempts = 0) => retryCount = 0
     /\ lastOutcome.attempt = 1 => lastOutcome.retryCount = 0
     /\ \A i \in visited : (retryFailedRows /\ failedBefore(i)) => i \in sent
     /\ \A i \in recorded :
          (failedBefore(i) /\ lastOutcome.row = i) => lastOutcome.attempt = allAttempts

\* C25 witness: in a second run, CsvProcessor has made all the attempts of a
\* row that the first run had recorded as failed, and records it again.
C25_Witness ==
  /\ run = 2
  /\ impl = "CsvProcessor"
  /\ \E i \in recorded :
       /\ lastOutcome.row = i
       /\ lastOutcome.attempt = maxRetries + 1
       /\ \E m \in ErrMsgs : startRows[i].response = ErrorResultCsvProcessor(m)

(***************************************************************************)
(* What a row's processing touches.                                        *)
(***************************************************************************)

\* C26: processing a row changes the response of that row only: no step of
\* the run changes another row, in memory or in the file, and no step changes
\* the prompt of any row.
C26_OnlyTheRowInHandChanges ==
  [][\A i \in RowIds :
       /\ i # idx => rows'[i] = rows[i] /\ disk'[i] = disk[i]
       /\ rows'[i].prompt = rows[i].prompt
       /\ disk'[i].prompt = disk[i].prompt]_vars

\* C26 witness: the run is done; one row that was sent holds an error result,
\* another row that was sent holds its response.
C26_Witness ==
  /\ pc = "done"
  /\ \E i \in recorded, j \in (sent \cap visited) \ recorded :
       /\ includes(disk[i].response, errorIdentifier)
       /\ disk[j].response = GoodGrade
       /\ startRows[j].response = <<>>

(***************************************************************************)
(* Whose text the detector returns.                                        *)
(***************************************************************************)

\* C27: the text that waitForAssistantResponse returns is the answer to the
\* message just sent, never a text that an earlier row or an earlier attempt
\* left on the page.
C27_ReturnedTextIsOwn ==
  (wait.dpc = "returned" /\ wait.len > 0) => page.own

(***************************************************************************)
(* Completion by stability.                                                *)
(***************************************************************************)

\* C28: waitForAssistantResponse returns a text as stable only when no
\* completion signal holds on the page and every reading of the text, for at
\* least maxStableTime, has found the length it returns.
C28_StableOnlyAfterWindow ==
  (wait.dpc = "returned" /\ wait.kind = "STABLE") =>
     /\ ~isResponseComplete(page)
     /\ wait.len = wait.seenLength
     /\ wait.now - wait.sameSince >= wait.maxStableTime

(***************************************************************************)
(* The forced resolve of the progress timer.                               *)
(***************************************************************************)

\* C29: a wait that has recorded a text and has seen no progress for longer
\* than half of Timeout does not go on and does not end the process: the
\* progress timer has resolved it with the text on the page.  (Half of the
\* default timeout is longer than stuckAfter; the formula asks for both.)
C29_StuckWaitIsForced ==
  LET noProgressTime == wait.now - wait.lastProgressUpdate
  IN (/\ noProgressTime * 2 > Timeout
      /\ noProgressTime > stuckAfter
      /\ wait.lastLength > 0) => wait.dpc \notin {"polling", "crashed"}

(***************************************************************************)
(* What a call of the detector leaves behind.                              *)
(***************************************************************************)

\* C30: when waitForAssistantResponse has returned or thrown, nothing that it
\* set up is still in place: neither of the two intervals, nor the timeout
\* timer, nor the navigation listener.
C30_NothingLeftScheduled ==
  wait.dpc \in {"returned", "threw"} => wait.scheduled = {}

(***************************************************************************)
(* What is stored as a success.                                            *)
(***************************************************************************)

\* C31: when sendMessageWithAttachments has returned a text and the attempt
\* has been taken as a success, the response stored for the row is not empty.
C31_StoredResultNonEmpty ==
  (/\ pc = "finish"
   /\ lastOutcome.row = idx
   /\ lastOutcome.type = "return"
   /\ lastOutcome.err = "") => rows[idx].response # <<>> /\ disk[idx].response # <<>>

\* C33: a response stored when the attempt has been taken as a success does
\* not hold the error identifier, so that no later run takes the row for a
\* failed one and sends it again.
C33_SuccessResultIsDone ==
  (/\ pc = "finish"
   /\ lastOutcome.row = idx
   /\ lastOutcome.type = "return"
   /\ lastOutcome.err = "") => ~includes(disk[idx].response, errorIdentifier)

(***************************************************************************)
(* Properties of sendMessageWithAttachments.                               *)
(***************************************************************************)

\* C32: when the page submits the prompt, every existing file of the row has
\* been taken by the page and its upload has been confirmed.
C32_SubmittedWithAllAttachments ==
  send.submissions > 0 =>
    /\ send.submittedWith = Files(send)
    /\ send.confirmed = Files(send)

C37_SubmittedAtMostOnce == send.submissions <= 1

\* C38: waitForAssistantResponse is started, and a response is returned,
\* only when an approach has left the send button disabled and the page has
\* submitted the prompt.
C38_DetectorOnlyAfterTriggered ==
  (send.detectorStarted \/ send.spc = "returned") =>
    send.success /\ send.submissions > 0

(***************************************************************************)
(* Properties of the callback of responseCheckInterval.                    *)
(***************************************************************************)

C35_ContinueStillNeedsStableWindow ==
  /\ wait.maxStableTime \in {defaultMaxStableTime, continueMaxStableTime}
  /\ (wait.dpc = "returned" /\ wait.kind = "STABLE"
        /\ wait.maxStableTime = continueMaxStableTime)
       => /\ wait.len = wait.seenLength
          /\ wait.now - wait.sameSince >= continueMaxStableTime

\* C39: isResponseComplete asks for the send button first, for the
\* Regenerate button second and for the Continue button last, and stops at
\* the first that it finds.  A check on a live page that is not a new chat:
\* with the send button enabled it ends the wait as complete if the
\* screenshot can be taken and a text is there, whatever the other two
\* buttons are, and leaves the stability window alone; with the button
\* disabled and Regenerate there it ends the wait as complete if a text is
\* there, and leaves the window alone also when Continue is there; only
\* with neither does Continue shorten the window, and the check does not
\* end the wait as complete.
C39_PredicatesInOrderFirstWins ==
  [][(/\ wait.dpc = "polling"
      /\ wait'.checkCount = wait.checkCount + 1
      /\ page.url # NewChatUrl
      /\ page.alive)
       => /\ ~page.btnDisabled
               => /\ wait'.maxStableTime = wait.maxStableTime
                  /\ wait'.kind = "COMPLETE" <=> (page.shots /\ page.len > 0)
          /\ (page.btnDisabled /\ page.regen)
               => /\ wait'.maxStableTime = wait.maxStableTime
                  /\ wait'.kind = "COMPLETE" <=> page.len > 0
          /\ (page.btnDisabled /\ ~page.regen)
               => /\ wait'.maxStableTime =
                       (IF page.cont THEN continueMaxStableTime
                                     ELSE wait.maxStableTime)
                  /\ wait'.kind # "COMPLETE"]_vars

\* C39 witness: the first check found the send button enabled with the
\* Regenerate and the Continue button there too, and returned the text as
\* complete without having shortened the window.
C39_Witness ==
  /\ wait.dpc = "returned"
  /\ wait.kind = "COMPLETE"
  /\ wait.checkCount = 1
  /\ page.url # NewChatUrl
  /\ ~page.btnDisabled /\ page.regen /\ page.cont
  /\ page.len > 0
  /\ wait.len = page.len
  /\ wait.maxStableTime = defaultMaxStableTime

====
